---- MODULE Spec2Model ----
(***************************************************************************)
(* Token route discovery of the warp UI (src/src/features/tokens/routes.ts) *)
(*                                                                         *)
(* One discovery pass (the query function of useTokenRoutes) fetches the   *)
(* remote tokens of every configured collateral token, one token at a      *)
(* time, and hands the enriched list to computeTokenRoutes.  The resulting *)
(* RoutesMap is then read through getTokenRoute and useRouteChains.        *)
(***************************************************************************)
EXTENDS Integers, Sequences, FiniteSets

(***************************************************************************)
(* Bounds of the model.                                                    *)
(***************************************************************************)
\* chain ids (and the domains a collateral contract may enumerate) are 1..MaxChain
MaxChain == 3
\* the remote links discovered in one pass, summed over the tokens
MaxLinks == 3

(***************************************************************************)
(* Addresses are strings, modelled as sequences of characters.  An address *)
(* is "0x" followed by three hex digits; the alphabet is cut down to the   *)
(* letters a and b (either case), the digit 0 and the non-hex letter g.    *)
(***************************************************************************)
ToLowerChar(c) == CASE c = "A" -> "a" [] c = "B" -> "b" [] OTHER -> c

ToLowerCase(s) == [k \in DOMAIN s |-> ToLowerChar(s[k])]

IsLowerHex(c) == c \in {"0", "a", "b"}

IsUpperHex(c) == c \in {"0", "A", "B"}

\* The case each hex digit takes in the canonical (checksummed) form.  The real
\* codec derives the case of every letter from a hash of the address; here the
\* letter a is written upper case and the letter b lower case.
ChecksumChar(c) == CASE ToLowerChar(c) = "a" -> "A" [] OTHER -> ToLowerChar(c)

\* the canonical form of an address string: the prefix kept, the digits recased
getAddress(s) == [k \in DOMAIN s |-> IF k <= 2 THEN s[k] ELSE ChecksumChar(s[k])]

\* utils.isAddress: "0x", three hex digits, and either a single case or the
\* case pattern of the canonical form
isAddress(s) ==
    /\ Len(s) = 5
    /\ s[1] = "0" /\ s[2] = "x"
    /\ \A k \in 3..Len(s) : IsLowerHex(s[k]) \/ IsUpperHex(s[k])
    /\ \/ \A k \in 3..Len(s) : IsLowerHex(s[k])
       \/ \A k \in 3..Len(s) : IsUpperHex(s[k])
       \/ s = getAddress(s)

isValidAddress(address) == isAddress(address)

normalizeAddress(address) == getAddress(address)

areAddressesEqual(a1, a2) == ToLowerCase(a1) = ToLowerCase(a2)

\* utils.bytes32ToAddress: the padding dropped, the last three digits kept
bytes32ToAddress(b) == <<"0", "x">> \o SubSeq(b, Len(b) - 2, Len(b))

(***************************************************************************)
(* The configuration: getAllTokens().                                      *)
(***************************************************************************)
Addr(c1, c2, c3) == <<"0", "x", c1, c2, c3>>

TokenA == [chainId |-> 1, address |-> Addr("A", "b", "0"), hypCollateralAddress |-> Addr("b", "A", "0"),
           symbol |-> "USDC", decimals |-> 6]

TokenB == [chainId |-> 1, address |-> Addr("b", "b", "0"), hypCollateralAddress |-> Addr("A", "A", "0"),
           symbol |-> "WETH", decimals |-> 18]

TokenC == [chainId |-> 2, address |-> Addr("a", "b", "0"), hypCollateralAddress |-> Addr("b", "A", "0"),
           symbol |-> "USDC", decimals |-> 18]

\* the token lists a deployment may configure
TokenLists == {<< >>, <<TokenA>>, <<TokenC>>, <<TokenA, TokenB>>, <<TokenA, TokenC>>,
               <<TokenC, TokenA>>, <<TokenA, TokenA>>}

(***************************************************************************)
(* The chain state the pass reads.                                         *)
(***************************************************************************)
ChainIds == 1..MaxChain

DecimalsOnChain == {6, 18}

SymbolsOnChain == {"USDC", "WETH"}

WrappedTokens == {Addr("A", "b", "0"), Addr("b", "b", "0")}

\* the word of a domain with no router enrolled
ZeroWord == <<"0", "x", "0", "0", "0", "0", "0">>

\* collateralContract.routers(d): the 32-byte word enrolled for domain d
HexDigit(n) == CASE n = 0 -> "0" [] n = 1 -> "a" [] OTHER -> "b"

routers(hypCollateralAddress, d) ==
    LET first == IF hypCollateralAddress = Addr("b", "A", "0") THEN "a" ELSE "b"
    IN  <<"0", "x", "0", "0", first, HexDigit((d \div 3) % 3), HexDigit(d % 3)>>

(***************************************************************************)
(* Routes and the RoutesMap.                                               *)
(***************************************************************************)
NativeToRemote == "nativeToRemote"

RemoteToRemote == "remoteToRemote"

RemoteToNative == "remoteToNative"

RECURSIVE AddAll(_, _, _)
\* Set.add of the elements of s[from..], Array.from order = first insertion
AddAll(chains, s, from) ==
    IF from > Len(s) THEN chains
    ELSE AddAll(IF \E k \in 1..Len(chains) : chains[k] = s[from]
                THEN chains ELSE Append(chains, s[from]), s, from + 1)

RECURSIVE ChainsFrom(_, _, _)
ChainsFrom(chains, tokens, t) ==
    IF t > Len(tokens) THEN chains
    ELSE LET own == AddAll(chains, <<tokens[t].chainId>>, 1)
             remotes == [k \in 1..Len(tokens[t].hypTokens) |-> tokens[t].hypTokens[k].chainId]
         IN  ChainsFrom(AddAll(own, remotes, 1), tokens, t + 1)

getChainsFromTokens(tokens) == ChainsFrom(<< >>, tokens, 1)

Range(s) == {s[k] : k \in DOMAIN s}

\* an entry also for a chain paired with itself
InstantiateMapWithSelf(allChainIds) ==
    [source \in Range(allChainIds) |-> [dest \in Range(allChainIds) |-> << >>]]

\* lines 104-110: an empty list for every ordered pair of distinct chains
InstantiateMap(allChainIds) ==
    [source \in Range(allChainIds) |-> [dest \in Range(allChainIds) \ {source} |-> << >>]]

\* the map under construction, or the TypeError a push on a missing entry throws
Building(m) == [thrown |-> FALSE, map |-> m]

Thrown == [thrown |-> TRUE, map |-> << >>]

\* tokenRoutes[source][dest].push(route)
Push(b, source, dest, route) ==
    IF b.thrown THEN b
    ELSE IF source \notin DOMAIN b.map THEN Thrown
    ELSE IF dest \notin DOMAIN b.map[source] THEN Thrown
    ELSE Building([b.map EXCEPT ![source][dest] = Append(@, route)])

\* the two addresses of the token taken for each other
commonRoutePropsSwapped(token) ==
    [nativeChainId |-> token.chainId,
     nativeTokenAddress |-> token.hypCollateralAddress,
     hypCollateralAddress |-> token.address,
     decimals |-> token.decimals]

\* lines 123-127, with the decimals every route of the token carries
commonRouteProps(token) ==
    [nativeChainId |-> token.chainId,
     nativeTokenAddress |-> token.address,
     hypCollateralAddress |-> token.hypCollateralAddress,
     decimals |-> token.decimals]

MakeRoute(type, common, source, dest) ==
    [type |-> type,
     nativeChainId |-> common.nativeChainId,
     nativeTokenAddress |-> common.nativeTokenAddress,
     hypCollateralAddress |-> common.hypCollateralAddress,
     sourceTokenAddress |-> source,
     destTokenAddress |-> dest,
     decimals |-> common.decimals]

\* the route starts at the native token instead of the collateral contract
NativeToRemoteFromToken(token, hypToken) ==
    [type |-> NativeToRemote,
     nativeChainId |-> token.chainId,
     nativeTokenAddress |-> token.address,
     hypCollateralAddress |-> token.hypCollateralAddress,
     sourceTokenAddress |-> token.address,
     destTokenAddress |-> hypToken.address,
     decimals |-> token.decimals]

\* lines 128-134
NativeToRemoteRoute(token, hypToken) ==
    MakeRoute(NativeToRemote, commonRouteProps(token),
              token.hypCollateralAddress, hypToken.address)

\* source and destination not swapped for the way back
RemoteToNativeUnswapped(token, hypToken) ==
    [type |-> RemoteToNative,
     nativeChainId |-> token.chainId,
     nativeTokenAddress |-> token.address,
     hypCollateralAddress |-> token.hypCollateralAddress,
     sourceTokenAddress |-> token.hypCollateralAddress,
     destTokenAddress |-> hypToken.address,
     decimals |-> token.decimals]

\* lines 135-141
RemoteToNativeRoute(token, hypToken) ==
    MakeRoute(RemoteToNative, commonRouteProps(token),
              hypToken.address, token.hypCollateralAddress)

\* lines 147-153
RemoteToRemoteRoute(token, hypToken, otherHypToken) ==
    MakeRoute(RemoteToRemote, commonRouteProps(token),
              hypToken.address, otherHypToken.address)

\* lines 154-160
RemoteToRemoteMirror(token, hypToken, otherHypToken) ==
    MakeRoute(RemoteToRemote, commonRouteProps(token),
              otherHypToken.address, hypToken.address)

RECURSIVE ForEachOtherHypToken(_, _, _, _)
\* lines 143-161: the loop over the other remote tokens of the same token
ForEachOtherHypToken(b, token, hypToken, k) ==
    IF b.thrown \/ k > Len(token.hypTokens) THEN b
    ELSE LET otherHypToken == token.hypTokens[k]
         IN  IF otherHypToken.chainId = hypToken.chainId
             THEN ForEachOtherHypToken(b, token, hypToken, k + 1)
             ELSE ForEachOtherHypToken(
                      Push(Push(b, hypToken.chainId, otherHypToken.chainId,
                                RemoteToRemoteRoute(token, hypToken, otherHypToken)),
                           otherHypToken.chainId, hypToken.chainId,
                           RemoteToRemoteMirror(token, hypToken, otherHypToken)),
                      token, hypToken, k + 1)

RECURSIVE ForEachHypToken(_, _, _)
\* lines 114-162: the loop over the remote tokens of one token
ForEachHypToken(b, token, j) ==
    IF b.thrown \/ j > Len(token.hypTokens) THEN b
    ELSE LET hypToken == token.hypTokens[j]
             toRemote == Push(b, token.chainId, hypToken.chainId,
                              NativeToRemoteRoute(token, hypToken))
             toNative == Push(toRemote, hypToken.chainId, token.chainId,
                              RemoteToNativeRoute(token, hypToken))
         IN  ForEachHypToken(ForEachOtherHypToken(toNative, token, hypToken, 1), token, j + 1)

RECURSIVE ForEachToken(_, _, _)
\* lines 113-163: the loop over the tokens
ForEachToken(b, tokens, t) ==
    IF b.thrown \/ t > Len(tokens) THEN b
    ELSE ForEachToken(ForEachHypToken(b, tokens[t], 1), tokens, t + 1)

\* the map returned, or the TypeError thrown
computeTokenRoutes(tokens) ==
    ForEachToken(Building(InstantiateMap(getChainsFromTokens(tokens))), tokens, 1)

(***************************************************************************)
(* The accessors.                                                          *)
(***************************************************************************)
\* tokenRoutes[sourceChainId]?.[destinationChainId] || []
getTokenRoutes(sourceChainId, destinationChainId, tokenRoutes) ==
    IF sourceChainId \in DOMAIN tokenRoutes
    THEN IF destinationChainId \in DOMAIN tokenRoutes[sourceChainId]
         THEN tokenRoutes[sourceChainId][destinationChainId]
         ELSE << >>
    ELSE << >>

NoRoute == MakeRoute("none", [nativeChainId |-> 0, nativeTokenAddress |-> << >>,
                              hypCollateralAddress |-> << >>, decimals |-> 0], << >>, << >>)

Null == [found |-> FALSE, route |-> NoRoute]

\* lines 194-196: routes.find, the first route whose native token is the one asked for
FindRoute(routes, nativeTokenAddress) ==
    LET hits == {k \in 1..Len(routes) :
                    areAddressesEqual(nativeTokenAddress, routes[k].nativeTokenAddress)}
    IN  IF hits = {} THEN Null
        ELSE [found |-> TRUE, route |-> routes[CHOOSE k \in hits : \A l \in hits : k <= l]]

\* the lookup without the check of the address
getTokenRouteUnchecked(sourceChainId, destinationChainId, nativeTokenAddress, tokenRoutes) ==
    FindRoute(getTokenRoutes(sourceChainId, destinationChainId, tokenRoutes), nativeTokenAddress)

getTokenRoute(sourceChainId, destinationChainId, nativeTokenAddress, tokenRoutes) ==
    IF ~isValidAddress(nativeTokenAddress) THEN Null
    ELSE FindRoute(getTokenRoutes(sourceChainId, destinationChainId, tokenRoutes),
                   nativeTokenAddress)

Digits == <<"0", "1", "2", "3", "4", "5", "6", "7", "8", "9">>

RECURSIVE ToString(_)
\* the property key of a chain id: its decimal digits
ToString(n) ==
    IF n < 10 THEN <<Digits[n + 1]>> ELSE Append(ToString(n \div 10), Digits[(n % 10) + 1])

RECURSIVE ParseDigits(_, _)
ParseDigits(str, k) ==
    IF k = 0 THEN 0
    ELSE 10 * ParseDigits(str, k - 1) + ((CHOOSE d \in 1..10 : Digits[d] = str[k]) - 1)

parseInt(str) == ParseDigits(str, Len(str))

RECURSIVE Ascending(_)
Ascending(S) ==
    IF S = {} THEN << >>
    ELSE LET least == CHOOSE x \in S : \A y \in S : x <= y
         IN  <<least>> \o Ascending(S \ {least})

\* Object.keys: integer keys come out in ascending numeric order, as strings
ObjectKeys(tokenRoutes) ==
    LET ids == Ascending(DOMAIN tokenRoutes)
    IN  [k \in 1..Len(ids) |-> ToString(ids[k])]

\* the comparator without the preference for collateral chains
compareNumeric(collateralChainIds, c1, c2) == c1 - c2

\* lines 213-218: the comparator
compareChains(collateralChainIds, c1, c2) ==
    IF c1 \in collateralChainIds /\ c2 \notin collateralChainIds THEN -1
    ELSE IF c1 \notin collateralChainIds /\ c2 \in collateralChainIds THEN 1
    ELSE c1 - c2

\* x placed before the first element it compares less than
Insert(sorted, x, collateralChainIds) ==
    LET before == {k \in 1..Len(sorted) : compareChains(collateralChainIds, x, sorted[k]) < 0}
        at == IF before = {} THEN Len(sorted) + 1
              ELSE CHOOSE k \in before : \A l \in before : k <= l
    IN  SubSeq(sorted, 1, at - 1) \o <<x>> \o SubSeq(sorted, at, Len(sorted))

RECURSIVE SortFrom(_, _, _, _)
SortFrom(sorted, array, k, collateralChainIds) ==
    IF k > Len(array) THEN sorted
    ELSE SortFrom(Insert(sorted, array[k], collateralChainIds), array, k + 1,
                  collateralChainIds)

\* allChainIds.sort(comparator)
Sort(array, collateralChainIds) == SortFrom(<< >>, array, 1, collateralChainIds)

useRouteChains(tokenRoutes, allTokens) ==
    LET keys == ObjectKeys(tokenRoutes)
        allChainIds == [k \in 1..Len(keys) |-> parseInt(keys[k])]
        collateralChainIds == {allTokens[k].chainId : k \in 1..Len(allTokens)}
    IN  Sort(allChainIds, collateralChainIds)

(***************************************************************************)
(* The discovery pass: useTokenRoutes and                                  *)
(* fetchRemoteTokensForCollateralToken.                                    *)
(***************************************************************************)
VARIABLES
    config,          \* getAllTokens()
    status,          \* of the query: "loading", "success" or "error"
    pc,              \* where the query function stands
    passes,          \* how many times the query function was started
    tokens,          \* line 43: the tokens fetched so far
    wrappedTokenAddr,\* line 66
    decimalsOnChain, \* line 68
    symbolOnChain,   \* line 74
    domains,         \* line 82
    routerWords,     \* line 86: the words read so far, ZeroWord where none yet
    settled,         \* the router reads of this token that have resolved
    inflight,        \* the on-chain reads issued and not yet settled
    issued,          \* per token, the reads issued for it
    completed,       \* per token, the reads of it that have settled
    builderCalls,    \* how many times computeTokenRoutes was called
    tokenRoutes,     \* data of the query: the RoutesMap, << >> while undefined
    error,           \* error of the query
    view             \* what the last accessor call was given and returned

vars == <<config, status, pc, passes, tokens, wrappedTokenAddr, decimalsOnChain,
          symbolOnChain, domains, routerWords, settled, inflight, issued, completed,
          builderCalls, tokenRoutes, error, view>>

locals == <<wrappedTokenAddr, decimalsOnChain, symbolOnChain, domains, routerWords, settled>>

\* line 51
retry == FALSE

NoView == [kind |-> "none", sourceChainId |-> 0, destinationChainId |-> 0,
           nativeTokenAddress |-> << >>, result |-> Null, chains |-> << >>]

\* the token the loop of line 44 is at
Current == Len(tokens) + 1

Read(call, arg) == [token |-> Current, call |-> call, arg |-> arg]

RECURSIVE LinksOf(_, _)
LinksOf(list, t) == IF t = 0 THEN 0 ELSE LinksOf(list, t - 1) + Len(list[t].hypTokens)

SeqsUpTo(S, n) == UNION {[1..m -> S] : m \in 0..n}

Init ==
    /\ config \in TokenLists
    /\ status = "loading"
    /\ pc = "start"
    /\ passes = 1
    /\ tokens = << >>
    /\ wrappedTokenAddr = << >>
    /\ decimalsOnChain = 0
    /\ symbolOnChain = ""
    /\ domains = << >>
    /\ routerWords = << >>
    /\ settled = {}
    /\ inflight = {}
    /\ issued = [t \in 1..Len(config) |-> 0]
    /\ completed = [t \in 1..Len(config) |-> 0]
    /\ builderCalls = 0
    /\ tokenRoutes = << >>
    /\ error = "none"
    /\ view = NoView

\* a rejection of the query function: with retry off the query ends in error
Reject(kind) ==
    IF retry
    THEN /\ pc' = "start"
         /\ passes' = passes + 1
         /\ UNCHANGED <<status, error>>
    ELSE /\ pc' = "done"
         /\ status' = "error"
         /\ error' = kind
         /\ UNCHANGED passes

\* lines 42-43
BeginPass ==
    /\ pc = "start"
    /\ pc' = "loop"
    /\ tokens' = << >>
    /\ wrappedTokenAddr' = << >>
    /\ decimalsOnChain' = 0
    /\ symbolOnChain' = ""
    /\ domains' = << >>
    /\ routerWords' = << >>
    /\ settled' = {}
    /\ UNCHANGED <<config, status, passes, inflight, issued, completed, builderCalls,
                   tokenRoutes, error, view>>

\* lines 44-46 and 60-66: the next token's fetch starts and reads wrappedToken()
CallFetch ==
    /\ pc = "loop"
    /\ Len(tokens) < Len(config)
    /\ pc' = "wrappedToken"
    /\ inflight' = inflight \cup {Read("wrappedToken", 0)}
    /\ issued' = [issued EXCEPT ![Current] = @ + 1]
    /\ UNCHANGED <<config, status, passes, tokens, locals, completed, builderCalls,
                   tokenRoutes, error, view>>

\* lines 66-68: wrappedToken() resolves, decimals() is read
WrappedTokenResolves(w) ==
    /\ pc = "wrappedToken"
    /\ wrappedTokenAddr' = w
    /\ pc' = "decimals"
    /\ inflight' = (inflight \ {Read("wrappedToken", 0)}) \cup {Read("decimals", 0)}
    /\ completed' = [completed EXCEPT ![Current] = @ + 1]
    /\ issued' = [issued EXCEPT ![Current] = @ + 1]
    /\ UNCHANGED <<config, status, passes, tokens, decimalsOnChain, symbolOnChain, domains,
                   routerWords, settled, builderCalls, tokenRoutes, error, view>>

\* the check with the wrong comparison
DecimalsBelow(token, onChain) == token.decimals < onChain

\* line 69
DecimalsDiffer(token, onChain) == token.decimals # onChain

\* line 75
SymbolDiffer(token, onChain) == token.symbol # onChain

\* lines 68-74: decimals() resolves and is checked, symbol() is read
DecimalsResolves(d) ==
    /\ pc = "decimals"
    /\ decimalsOnChain' = d
    /\ completed' = [completed EXCEPT ![Current] = @ + 1]
    /\ IF DecimalsDiffer(config[Current], d)
       THEN /\ Reject("ConfigMismatch")
            /\ inflight' = inflight \ {Read("decimals", 0)}
            /\ UNCHANGED issued
       ELSE /\ pc' = "symbol"
            /\ inflight' = (inflight \ {Read("decimals", 0)}) \cup {Read("symbol", 0)}
            /\ issued' = [issued EXCEPT ![Current] = @ + 1]
            /\ UNCHANGED <<status, passes, error>>
    /\ UNCHANGED <<config, tokens, wrappedTokenAddr, symbolOnChain, domains, routerWords,
                   settled, builderCalls, tokenRoutes, view>>

\* lines 74-82: symbol() resolves and is checked, domains() is read
SymbolResolves(s) ==
    /\ pc = "symbol"
    /\ symbolOnChain' = s
    /\ completed' = [completed EXCEPT ![Current] = @ + 1]
    /\ IF SymbolDiffer(config[Current], s)
       THEN /\ Reject("ConfigMismatch")
            /\ inflight' = inflight \ {Read("symbol", 0)}
            /\ UNCHANGED issued
       ELSE /\ pc' = "domains"
            /\ inflight' = (inflight \ {Read("symbol", 0)}) \cup {Read("domains", 0)}
            /\ issued' = [issued EXCEPT ![Current] = @ + 1]
            /\ UNCHANGED <<status, passes, error>>
    /\ UNCHANGED <<config, tokens, wrappedTokenAddr, decimalsOnChain, domains, routerWords,
                   settled, builderCalls, tokenRoutes, view>>

\* lines 82-88: domains() resolves, routers(d) is read for every domain at once
DomainsResolves(ds) ==
    /\ pc = "domains"
    /\ Len(ds) <= MaxLinks - LinksOf(tokens, Len(tokens))
    /\ domains' = ds
    /\ routerWords' = [k \in 1..Len(ds) |-> ZeroWord]
    /\ settled' = {}
    /\ pc' = "routers"
    /\ inflight' = (inflight \ {Read("domains", 0)}) \cup {Read("routers", k) : k \in 1..Len(ds)}
    /\ completed' = [completed EXCEPT ![Current] = @ + 1]
    /\ issued' = [issued EXCEPT ![Current] = @ + Len(ds)]
    /\ UNCHANGED <<config, status, passes, tokens, wrappedTokenAddr, decimalsOnChain,
                   symbolOnChain, builderCalls, tokenRoutes, error, view>>

\* one of the routers(d) reads resolves
RouterResolves(k) ==
    /\ pc = "routers"
    /\ Read("routers", k) \in inflight
    /\ routerWords' = [routerWords EXCEPT
                          ![k] = routers(config[Current].hypCollateralAddress, domains[k])]
    /\ settled' = settled \cup {k}
    /\ inflight' = inflight \ {Read("routers", k)}
    /\ completed' = [completed EXCEPT ![Current] = @ + 1]
    /\ UNCHANGED <<config, status, pc, passes, tokens, wrappedTokenAddr, decimalsOnChain,
                   symbolOnChain, domains, issued, builderCalls, tokenRoutes, error, view>>

\* the join that waits for the first read only
PromiseAny(n, resolved) == n = 0 \/ resolved # {}

\* Promise.all over n reads resolves once every one of them has
PromiseAll(n, resolved) == resolved = 1..n

\* lines 89-94
hypTokensOf(ds, words) ==
    [k \in 1..Len(ds) |-> [chainId |-> ds[k],
                           address |-> normalizeAddress(bytes32ToAddress(words[k]))]]

\* lines 86-95 and 47: the router reads are joined, the fetch returns, the token is pushed
JoinRouters ==
    /\ pc = "routers"
    /\ PromiseAll(Len(domains), settled)
    /\ tokens' = Append(tokens, [chainId |-> config[Current].chainId,
                                 address |-> config[Current].address,
                                 hypCollateralAddress |-> config[Current].hypCollateralAddress,
                                 symbol |-> config[Current].symbol,
                                 decimals |-> config[Current].decimals,
                                 hypTokens |-> hypTokensOf(domains, routerWords)])
    /\ pc' = "loop"
    /\ wrappedTokenAddr' = << >>
    /\ decimalsOnChain' = 0
    /\ symbolOnChain' = ""
    /\ domains' = << >>
    /\ routerWords' = << >>
    /\ settled' = {}
    /\ UNCHANGED <<config, status, passes, inflight, issued, completed, builderCalls,
                   tokenRoutes, error, view>>

\* a read the query function awaits rejects (node or network failure)
ReadRejects(r) ==
    /\ pc \in {"wrappedToken", "decimals", "symbol", "domains", "routers"}
    /\ r \in inflight
    /\ inflight' = inflight \ {r}
    /\ completed' = [completed EXCEPT ![r.token] = @ + 1]
    /\ Reject("TransportError")
    /\ UNCHANGED <<config, tokens, locals, issued, builderCalls, tokenRoutes, view>>

\* a router read still in flight when the pass was rejected settles, unobserved
OrphanSettles(r) ==
    /\ pc = "done"
    /\ r \in inflight
    /\ inflight' = inflight \ {r}
    /\ completed' = [completed EXCEPT ![r.token] = @ + 1]
    /\ UNCHANGED <<config, status, pc, passes, tokens, locals, issued, builderCalls,
                   tokenRoutes, error, view>>

\* line 49: every token is fetched, the routes are computed and returned
Compute ==
    /\ pc = "loop"
    /\ Len(tokens) = Len(config)
    /\ builderCalls' = builderCalls + 1
    /\ LET built == computeTokenRoutes(tokens)
       IN  IF built.thrown
           THEN /\ Reject("TypeError")
                /\ UNCHANGED tokenRoutes
           ELSE /\ pc' = "done"
                /\ status' = "success"
                /\ tokenRoutes' = built.map
                /\ UNCHANGED <<passes, error>>
    /\ UNCHANGED <<config, tokens, locals, inflight, issued, completed, view>>

\* the addresses a caller may ask a route for
QueryAddresses ==
    {Addr("A", "b", "0"), Addr("a", "b", "0"), Addr("a", "B", "0"), Addr("b", "b", "0"),
     Addr("g", "b", "0")}

\* The accessors are pure functions of the map and of their arguments; a behaviour
\* records one call.
GetTokenRoute(sourceChainId, destinationChainId, nativeTokenAddress) ==
    /\ status = "success"
    /\ view = NoView
    /\ view' = [kind |-> "getTokenRoute",
                sourceChainId |-> sourceChainId,
                destinationChainId |-> destinationChainId,
                nativeTokenAddress |-> nativeTokenAddress,
                result |-> getTokenRoute(sourceChainId, destinationChainId,
                                         nativeTokenAddress, tokenRoutes),
                chains |-> << >>]
    /\ UNCHANGED <<config, status, pc, passes, tokens, locals, inflight, issued, completed,
                   builderCalls, tokenRoutes, error>>

UseRouteChains ==
    /\ status = "success"
    /\ view = NoView
    /\ view' = [NoView EXCEPT !.kind = "useRouteChains",
                              !.chains = useRouteChains(tokenRoutes, config)]
    /\ UNCHANGED <<config, status, pc, passes, tokens, locals, inflight, issued, completed,
                   builderCalls, tokenRoutes, error>>

Next ==
    \/ BeginPass
    \/ CallFetch
    \/ \E w \in WrappedTokens : WrappedTokenResolves(w)
    \/ \E d \in DecimalsOnChain : DecimalsResolves(d)
    \/ \E s \in SymbolsOnChain : SymbolResolves(s)
    \/ \E ds \in SeqsUpTo(ChainIds, MaxLinks) : DomainsResolves(ds)
    \/ \E k \in 1..MaxLinks : RouterResolves(k)
    \/ JoinRouters
    \/ \E r \in inflight : ReadRejects(r)
    \/ \E r \in inflight : OrphanSettles(r)
    \/ Compute
    \/ \E s, d \in ChainIds : \E a \in QueryAddresses : GetTokenRoute(s, d, a)
    \/ UseRouteChains

Spec == Init /\ [][Next]_vars

(***************************************************************************)
(* Properties.                                                             *)
(***************************************************************************)
\* computeTokenRoutes returned a map
Returned == status = "success"

\* the chain ids of the input: every token's own and every remote token's
Universe ==
    {tokens[t].chainId : t \in 1..Len(tokens)}
        \cup UNION {{tokens[t].hypTokens[j].chainId : j \in 1..Len(tokens[t].hypTokens)} :
                    t \in 1..Len(tokens)}

\* the places of the map: <<source, dest, index>>
Places ==
    UNION {UNION {{<<a, b, k>> : k \in 1..Len(tokenRoutes[a][b])} : b \in DOMAIN tokenRoutes[a]} :
           a \in DOMAIN tokenRoutes}

RouteAt(p) == tokenRoutes[p[1]][p[2]][p[3]]

\* the (token, remote token) pairs of the input
Links == UNION {{<<t, j>> : j \in 1..Len(tokens[t].hypTokens)} : t \in 1..Len(tokens)}

LinkOf(l) == tokens[l[1]].hypTokens[l[2]]

\* the route carries the four native fields of the token
CarriesFieldsOf(r, token) ==
    /\ r.nativeChainId = token.chainId
    /\ r.nativeTokenAddress = token.address
    /\ r.hypCollateralAddress = token.hypCollateralAddress
    /\ r.decimals = token.decimals

SameFields(t1, t2) ==
    /\ t1.chainId = t2.chainId
    /\ t1.address = t2.address
    /\ t1.hypCollateralAddress = t2.hypCollateralAddress
    /\ t1.decimals = t2.decimals

\* the remote chain ids of the token are pairwise distinct and none is its own
CleanLinks(token) ==
    /\ \A j \in 1..Len(token.hypTokens) : token.hypTokens[j].chainId # token.chainId
    /\ \A j, k \in 1..Len(token.hypTokens) :
           j # k => token.hypTokens[j].chainId # token.hypTokens[k].chainId

\* the remoteToRemote routes of the map that carry the token's fields
RemoteToRemoteOf(token) ==
    {p \in Places : RouteAt(p).type = RemoteToRemote /\ CarriesFieldsOf(RouteAt(p), token)}

\* C1: a token with k remote links on pairwise distinct chains, none its own, has
\* exactly k * (k - 1) remoteToRemote routes in the returned map: one per ordered
\* pair of distinct remote chains (R, R2), in tokenRoutes[R][R2], and no duplicate.
\* (Stated for a token that is the only one of the list with its four native fields.)
C1_CliqueCompleteness ==
    Returned =>
        \A t \in 1..Len(tokens) :
            LET token == tokens[t]
                n == Len(token.hypTokens)
            IN  (/\ CleanLinks(token)
                 /\ \A u \in 1..Len(tokens) : SameFields(tokens[u], token) => u = t)
                => /\ Cardinality(RemoteToRemoteOf(token)) = n * (n - 1)
                   /\ \A j, k \in 1..n :
                          j # k =>
                              Cardinality({p \in RemoteToRemoteOf(token) :
                                  /\ p[1] = token.hypTokens[j].chainId
                                  /\ p[2] = token.hypTokens[k].chainId
                                  /\ RouteAt(p).sourceTokenAddress = token.hypTokens[j].address
                                  /\ RouteAt(p).destTokenAddress = token.hypTokens[k].address})
                              = 1

IsNativeToRemoteOf(r, token, hypToken) ==
    /\ r.type = NativeToRemote
    /\ CarriesFieldsOf(r, token)
    /\ r.sourceTokenAddress = token.hypCollateralAddress
    /\ r.destTokenAddress = hypToken.address

IsRemoteToNativeOf(r, token, hypToken) ==
    /\ r.type = RemoteToNative
    /\ CarriesFieldsOf(r, token)
    /\ r.sourceTokenAddress = hypToken.address
    /\ r.destTokenAddress = token.hypCollateralAddress

\* the links of the input that are the same link as l: same native fields, same
\* remote chain, same remote address
SameLinks(l) ==
    {m \in Links : /\ SameFields(tokens[m[1]], tokens[l[1]])
                   /\ LinkOf(m) = LinkOf(l)}

\* C2: in a returned map the nativeToRemote routes, the remoteToNative routes and the
\* remote links of the input are equally many, and every link (R, addr) of a token T
\* on chain N has its nativeToRemote route in tokenRoutes[N][R] (from T's collateral
\* contract to addr) and its remoteToNative route in tokenRoutes[R][N] (from addr to
\* T's collateral contract), one per link.
C2_Conservation ==
    Returned =>
        /\ Cardinality({p \in Places : RouteAt(p).type = NativeToRemote}) = Cardinality(Links)
        /\ Cardinality({p \in Places : RouteAt(p).type = RemoteToNative}) = Cardinality(Links)
        /\ \A l \in Links :
               LET token == tokens[l[1]]
                   N == token.chainId
                   R == LinkOf(l).chainId
               IN  /\ Cardinality({k \in 1..Len(tokenRoutes[N][R]) :
                           IsNativeToRemoteOf(tokenRoutes[N][R][k], token, LinkOf(l))})
                      = Cardinality(SameLinks(l))
                   /\ Cardinality({k \in 1..Len(tokenRoutes[R][N]) :
                           IsRemoteToNativeOf(tokenRoutes[R][N][k], token, LinkOf(l))})
                      = Cardinality(SameLinks(l))

\* two tokens with remote links have been turned into routes
C2_Witness ==
    /\ Returned
    /\ Len(tokens) = 2
    /\ Len(tokens[1].hypTokens) >= 1
    /\ Len(tokens[2].hypTokens) >= 1

\* some token of the input has routes between a and b
Connects(a, b) ==
    \E t \in 1..Len(tokens) :
        LET remote == {tokens[t].hypTokens[j].chainId : j \in 1..Len(tokens[t].hypTokens)}
            reach == remote \cup {tokens[t].chainId}
        IN  a \in reach /\ b \in reach /\ (a \in remote \/ b \in remote)

\* C3: the keys of a returned map are exactly the chain ids of the input; under every
\* key a there is a list for every other chain id b and none for a itself; the list is
\* empty when no token connects a and b.
C3_MapShape ==
    Returned =>
        /\ DOMAIN tokenRoutes = Universe
        /\ \A a \in Universe :
               /\ DOMAIN tokenRoutes[a] = Universe \ {a}
               /\ \A b \in Universe \ {a} : ~Connects(a, b) => tokenRoutes[a][b] = << >>

\* two chains of the universe that no token connects
C3_Witness ==
    /\ Returned
    /\ \E a, b \in Universe : a # b /\ ~Connects(a, b) /\ tokenRoutes[a][b] = << >>

\* the on-chain decimals or symbol read for the current token differ from its configuration
Mismatch ==
    /\ Current <= Len(config)
    /\ \/ decimalsOnChain # 0 /\ decimalsOnChain # config[Current].decimals
       \/ symbolOnChain # "" /\ symbolOnChain # config[Current].symbol

\* C4: once a token's on-chain decimals or symbol are read and differ from the
\* configuration, the pass has ended in error: computeTokenRoutes is never called,
\* there is no RoutesMap, nothing more is read for this or any later token, and the
\* query function is started once only.
C4_FailFast ==
    /\ passes = 1
    /\ Mismatch =>
           /\ status = "error"
           /\ error = "ConfigMismatch"
           /\ pc = "done"
           /\ builderCalls = 0
           /\ tokenRoutes = << >>
           /\ inflight = {}
           /\ \A t \in (Current + 1)..Len(config) : issued[t] = 0

\* the second token fails its check after the first one was fetched
C4_Witness == Mismatch /\ Len(tokens) = 1 /\ Len(tokens[1].hypTokens) >= 1

\* the two strings have the same letters, whatever their case
EqualIgnoringCase(a1, a2) ==
    /\ Len(a1) = Len(a2)
    /\ \A k \in 1..Len(a1) :
           \/ a1[k] = a2[k]
           \/ {a1[k], a2[k]} \in {{"a", "A"}, {"b", "B"}}

\* the routes the call looks through
ViewRoutes ==
    IF /\ view.sourceChainId \in DOMAIN tokenRoutes
       /\ view.destinationChainId \in DOMAIN tokenRoutes[view.sourceChainId]
    THEN tokenRoutes[view.sourceChainId][view.destinationChainId]
    ELSE << >>

ViewMatches ==
    {k \in 1..Len(ViewRoutes) :
        EqualIgnoringCase(ViewRoutes[k].nativeTokenAddress, view.nativeTokenAddress)}

\* what C5 says of the result besides when a route is returned
C5_Rest ==
    /\ view.result.found =>
           \E k \in ViewMatches :
               /\ view.result.route = ViewRoutes[k]
               /\ \A l \in ViewMatches : k <= l
    /\ ~isValidAddress(view.nativeTokenAddress) => ~view.result.found
    /\ (\/ view.sourceChainId \notin DOMAIN tokenRoutes
        \/ view.destinationChainId \notin DOMAIN tokenRoutes) => ~view.result.found

DerivedFrom(r, a, b, token) ==
    LET n == Len(token.hypTokens)
    IN  \/ /\ r.type = NativeToRemote
           /\ a = token.chainId
           /\ r.sourceTokenAddress = token.hypCollateralAddress
           /\ \E j \in 1..n : /\ token.hypTokens[j].chainId = b
                              /\ r.destTokenAddress = token.hypTokens[j].address
        \/ /\ r.type = RemoteToNative
           /\ b = token.chainId
           /\ r.destTokenAddress = token.hypCollateralAddress
           /\ \E j \in 1..n : /\ token.hypTokens[j].chainId = a
                              /\ r.sourceTokenAddress = token.hypTokens[j].address
        \/ /\ r.type = RemoteToRemote
           /\ \E j, k \in 1..n : /\ token.hypTokens[j].chainId = a
                                 /\ token.hypTokens[k].chainId = b
                                 /\ r.sourceTokenAddress = token.hypTokens[j].address
                                 /\ r.destTokenAddress = token.hypTokens[k].address

C7_Sequential ==
    /\ \A r \in inflight : r.token = Current
    /\ Cardinality(inflight) > 1 => \A r \in inflight : r.call = "routers"
    /\ \A t \in 2..Len(config) :
           issued[t] > 0 => /\ completed[t - 1] = issued[t - 1]
                            /\ Len(tokens) >= t - 1
    /\ \A t \in 1..Len(tokens) :
           /\ completed[t] = issued[t]
           /\ issued[t] = 4 + Len(tokens[t].hypTokens)
           /\ tokens[t].chainId = config[t].chainId
           /\ tokens[t].address = config[t].address
           /\ tokens[t].hypCollateralAddress = config[t].hypCollateralAddress
    /\ builderCalls > 0 => /\ Len(tokens) = Len(config)
                           /\ inflight = {}
                           /\ \A t \in 1..Len(config) : completed[t] = issued[t]

\* the second token has router reads in flight together, one of them already settled
C7_Witness ==
    /\ Current = 2
    /\ pc = "routers"
    /\ Cardinality(inflight) >= 1
    /\ settled # {}

\* C8: useRouteChains returns the keys of the map, each once, the chains of the
\* configured collateral tokens before all others, and in ascending order within the
\* collateral chains and within the others.
C8_OrderedChains ==
    view.kind = "useRouteChains" =>
        LET chains == view.chains
            collateral == {config[t].chainId : t \in 1..Len(config)}
        IN  /\ {chains[k] : k \in 1..Len(chains)} = DOMAIN tokenRoutes
            /\ Len(chains) = Cardinality(DOMAIN tokenRoutes)
            /\ \A k, l \in 1..Len(chains) :
                   k < l =>
                       /\ chains[l] \in collateral => chains[k] \in collateral
                       /\ (chains[k] \in collateral <=> chains[l] \in collateral)
                              => chains[k] < chains[l]

\* a collateral chain listed before a chain with a smaller id
C8_Witness ==
    /\ view.kind = "useRouteChains"
    /\ \E k, l \in 1..Len(view.chains) : k < l /\ view.chains[k] > view.chains[l]
    /\ Len(view.chains) >= 3

\* C9: whatever the fetch returned (a remote chain id may be the token's own, or repeat
\* within a token), computeTokenRoutes returns a map: no push lands on a missing entry.
C9_BuilderNeverThrows ==
    builderCalls > 0 => status = "success" /\ error = "none"

IsMirror(r, m) ==
    /\ m.nativeChainId = r.nativeChainId
    /\ m.nativeTokenAddress = r.nativeTokenAddress
    /\ m.hypCollateralAddress = r.hypCollateralAddress
    /\ m.decimals = r.decimals
    /\ m.sourceTokenAddress = r.destTokenAddress
    /\ m.destTokenAddress = r.sourceTokenAddress
    /\ \/ r.type = NativeToRemote /\ m.type = RemoteToNative
       \/ r.type = RemoteToNative /\ m.type = NativeToRemote
       \/ r.type = RemoteToRemote /\ m.type = RemoteToRemote

\* C10: in a returned map tokenRoutes[a][b] and tokenRoutes[b][a] are equally long, and
\* every route of tokenRoutes[a][b] has a mirror in tokenRoutes[b][a]: same native
\* fields, source and destination token address swapped, nativeToRemote mirrored by
\* remoteToNative and remoteToRemote by remoteToRemote.
C10_Mirror ==
    Returned =>
        \A a \in DOMAIN tokenRoutes :
            \A b \in DOMAIN tokenRoutes[a] :
                /\ Len(tokenRoutes[a][b]) = Len(tokenRoutes[b][a])
                /\ \A k \in 1..Len(tokenRoutes[a][b]) :
                       \E l \in 1..Len(tokenRoutes[b][a]) :
                           IsMirror(tokenRoutes[a][b][k], tokenRoutes[b][a][l])

\* a map with a remoteToRemote route and a nativeToRemote route
C10_Witness ==
    /\ Returned
    /\ \E p, q \in Places : /\ RouteAt(p).type = RemoteToRemote
                            /\ RouteAt(q).type = NativeToRemote
                            /\ RouteAt(q).sourceTokenAddress # RouteAt(q).destTokenAddress
====
